---- MODULE Spec2Model ----
(***************************************************************************)
(* Model of src/pacman.py: the maze, the player, the ghosts and the round  *)
(* controller (Game._update / Game._check_collisions).                     *)
(*                                                                         *)
(* Positions are Python floats in tile units.  Every speed of the program  *)
(* is a multiple of 1/(2*TILE_SIZE) tile (6/24, 5/24, 3.5/24, 7/24), so a  *)
(* position is modelled as an integer number of half pixels:               *)
(*     pos_model = pos_python * 2 * TILE_SIZE.                             *)
(* The player's coordinates are multiples of 0.25 and exact in binary      *)
(* floating point.  A ghost's coordinates carry a rounding error of the    *)
(* order of 1e-14: it cannot change a comparison with 0.1 (the nearest     *)
(* offsets are 4/48 and 5/48), but it decides what int() makes of          *)
(* x * TILE_SIZE + TILE_SIZE / 2 when the exact value is an integer; that  *)
(* outcome is modelled as a choice (PxSet).                                *)
(***************************************************************************)
EXTENDS Integers, Sequences, FiniteSets, TLC

\* ------------------------------------------------------------ constants
TILE_SIZE == 24
FPS == 60
power_duration_sec == 7
START_LIVES == 3
PELLET_SCORE == 10
POWER_SCORE == 50
EAT_SCORE == 200

\* One tile in model units (half pixels).
Tile == 2 * TILE_SIZE

GHOST_NORMAL == "normal"
GHOST_VULNERABLE == "vulnerable"
GHOST_EATEN == "eaten"
GhostStates == {GHOST_NORMAL, GHOST_VULNERABLE, GHOST_EATEN}

UP == <<0, -1>>
DOWN == <<0, 1>>
LEFT == <<-1, 0>>
RIGHT == <<1, 0>>
STOP == <<0, 0>>
ALL_DIRS == <<UP, DOWN, LEFT, RIGHT>>

\* Speeds per frame in model units: the source's n / TILE_SIZE tiles per frame
\* is n pixels, that is 2*n units.
player_speed == 12
speed_normal == 10
speed_vulnerable == 7
speed_eaten == 14

\* ------------------------------------------------------------ arithmetic
Abs(n) == IF n < 0 THEN -n ELSE n

\* Python's round() of the position u/Tile: nearest integer, a tie to the
\* even one.
Round(u) ==
    LET q == u \div Tile
        r == u % Tile
    IN  IF 2 * r < Tile THEN q
        ELSE IF 2 * r > Tile THEN q + 1
        ELSE IF q % 2 = 0 THEN q ELSE q + 1

RoundTile(pos) == <<Round(pos[1]), Round(pos[2])>>

\* abs(p - round(p)) < 0.1 on both axes.
Centered(pos) ==
    /\ 10 * Abs(pos[1] - Tile * Round(pos[1])) < Tile
    /\ 10 * Abs(pos[2] - Tile * Round(pos[2])) < Tile

TileCenter(t) == <<t[1] * Tile, t[2] * Tile>>

manhattan(a, b) == Abs(a[1] - b[1]) + Abs(a[2] - b[2])

\* int() of the rational m/2: truncation towards zero.
TruncHalf(m) == IF m >= 0 THEN m \div 2 ELSE -((-m) \div 2)

\* grid_to_px on one coordinate: int(x * TILE_SIZE + TILE_SIZE / 2), the
\* set of values the float computation can give.  With u the coordinate in
\* model units the exact value is (u + TILE_SIZE) / 2.  inexact: the float
\* carries a rounding error, which can put an exact integer on either side.
PxSet(u, inexact) ==
    LET m == u + TILE_SIZE
    IN  IF inexact /\ m % 2 = 0
        THEN {TruncHalf(m - 1), TruncHalf(m + 1)}
        ELSE {TruncHalf(m)}

\* ------------------------------------------------------------ maze
\* A layout is a sequence of rows, a row a sequence of one-character
\* strings.  Maze.__init__ takes the width from the first row.
LayoutHeight(layout) == Len(layout)
LayoutWidth(layout) == IF Len(layout) > 0 THEN Len(layout[1]) ELSE 0

Cells(layout) ==
    {<<x, y>> : x \in 0..(LayoutWidth(layout) - 1), y \in 0..(LayoutHeight(layout) - 1)}

CellAt(layout, c) ==
    IF c[1] + 1 <= Len(layout[c[2] + 1]) THEN layout[c[2] + 1][c[1] + 1] ELSE " "

CellsOf(layout, chars) == {c \in Cells(layout) : CellAt(layout, c) \in chars}

\* The order Maze._parse visits the cells in: row by row, left to right.
RowMajor(layout, a, b) ==
    \/ a[2] < b[2]
    \/ a[2] = b[2] /\ a[1] <= b[1]

\* The last cell of cs in parse order (a later 'P' or 'H' overwrites).
LastIn(layout, cs) == CHOOSE c \in cs : \A d \in cs : RowMajor(layout, d, c)

RECURSIVE InOrder(_, _)
InOrder(layout, cs) ==
    IF cs = {} THEN <<>>
    ELSE LET l == LastIn(layout, cs)
         IN  Append(InOrder(layout, cs \ {l}), l)

Maze(layout) ==
    LET w == LayoutWidth(layout)
        h == LayoutHeight(layout)
        ps == CellsOf(layout, {"P"})
        hs == CellsOf(layout, {"H"})
    IN  [ layout |-> layout,
          width |-> w,
          height |-> h,
          walls |-> CellsOf(layout, {"#"}),
          pellets |-> CellsOf(layout, {"."}),
          power_pellets |-> CellsOf(layout, {"o"}),
          player_start |-> IF ps = {} THEN <<1, 1>> ELSE LastIn(layout, ps),
          ghost_starts |-> InOrder(layout, CellsOf(layout, {"C", "R"})),
          house_pos |-> IF hs = {} THEN <<w \div 2, h \div 2>> ELSE LastIn(layout, hs) ]

in_bounds(m, t) ==
    /\ 0 <= t[1] /\ t[1] < m.width
    /\ 0 <= t[2] /\ t[2] < m.height

passable(m, t) == t \notin m.walls

Step(t, d) == <<t[1] + d[1], t[2] + d[2]>>

\* ------------------------------------------------------------ player
NewPlayer(m) ==
    [ pos |-> TileCenter(m.player_start),
      dir |-> STOP,
      next_dir |-> STOP,
      lives |-> START_LIVES,
      score |-> 0 ]

\* Player.handle_input: the first pressed key in the order up, down, left,
\* right; key is that direction, or STOP when none of the four is pressed.
handle_input(p, key) ==
    IF key = STOP THEN p ELSE [p EXCEPT !.next_dir = key]

\* Mutant of can_move: the wall test is left out.
can_move_no_walls(m, pos, direction) == in_bounds(m, Step(RoundTile(pos), direction))

can_move(m, pos, direction) ==
    LET n == Step(RoundTile(pos), direction)
    IN  in_bounds(m, n) /\ passable(m, n)

_clamp_inside_walls(m, pos) ==
    IF ~Centered(pos) THEN pos
    ELSE IF RoundTile(pos) \in m.walls THEN TileCenter(RoundTile(pos))
    ELSE pos

\* The direction after the two tests that open Player.update.
PlayerTurn(m, p) ==
    LET d1 == IF p.next_dir # p.dir /\ Centered(p.pos) /\ can_move(m, p.pos, p.next_dir)
              THEN p.next_dir ELSE p.dir
    IN  IF ~can_move(m, p.pos, d1) /\ Centered(p.pos) THEN STOP ELSE d1

PlayerUpdate(m, p) ==
    LET d == PlayerTurn(m, p)
        moved == <<p.pos[1] + d[1] * player_speed, p.pos[2] + d[2] * player_speed>>
    IN  [p EXCEPT !.dir = d, !.pos = _clamp_inside_walls(m, moved)]

\* Mutant of eat_pellets: a power pellet is counted but not removed.
eat_pellets_keeps_power(m, p) ==
    LET t == RoundTile(p.pos)
        eaten == IF t \in m.pellets THEN 1 ELSE 0
        power == IF t \in m.power_pellets THEN 1 ELSE 0
    IN  [ maze |-> [m EXCEPT !.pellets = @ \ {t}],
          player |-> [p EXCEPT !.score = @ + PELLET_SCORE * eaten + POWER_SCORE * power],
          eaten |-> eaten,
          power |-> power ]

\* Player.eat_pellets: the maze and the player after it, and the two counts.
eat_pellets(m, p) ==
    LET t == RoundTile(p.pos)
        eaten == IF t \in m.pellets THEN 1 ELSE 0
        power == IF t \in m.power_pellets THEN 1 ELSE 0
    IN  [ maze |-> [m EXCEPT !.pellets = @ \ {t}, !.power_pellets = @ \ {t}],
          player |-> [p EXCEPT !.score = @ + PELLET_SCORE * eaten + POWER_SCORE * power],
          eaten |-> eaten,
          power |-> power ]

\* ------------------------------------------------------------ ghosts
\* kind: "chaser" (ChaserGhost, the greedy Ghost._choose_dir) or "random"
\* (RandomGhost).  inexact[k]: coordinate k has been added to since it was
\* last assigned from start, so the float carries a rounding error.
NewGhost(start, kind, d) ==
    [ start |-> start,
      pos |-> TileCenter(start),
      dir |-> d,
      state |-> GHOST_NORMAL,
      kind |-> kind,
      inexact |-> <<FALSE, FALSE>> ]

DirSet == {ALL_DIRS[i] : i \in 1..Len(ALL_DIRS)}

\* Mutant of reset: the state is left as it is.
reset_keeps_state(g, d) ==
    [g EXCEPT !.pos = TileCenter(g.start), !.dir = d, !.inexact = <<FALSE, FALSE>>]

\* Ghost.reset, d the direction random.choice returns.
reset(g, d) ==
    [g EXCEPT !.pos = TileCenter(g.start), !.dir = d, !.state = GHOST_NORMAL,
              !.inexact = <<FALSE, FALSE>>]

\* Mutant of set_vulnerable: an eaten ghost becomes vulnerable as well.
set_vulnerable_all(g) == [g EXCEPT !.state = GHOST_VULNERABLE]

\* Mutant of set_vulnerable: nothing happens.
set_vulnerable_noop(g) == g

set_vulnerable(g) ==
    IF g.state # GHOST_EATEN THEN [g EXCEPT !.state = GHOST_VULNERABLE] ELSE g

\* Mutant of set_eaten: the caught ghost goes straight back to normal.
set_eaten_normal(g) == [g EXCEPT !.state = GHOST_NORMAL]

set_eaten(g) == [g EXCEPT !.state = GHOST_EATEN]

_current_speed(g) ==
    IF g.state = GHOST_VULNERABLE THEN speed_vulnerable
    ELSE IF g.state = GHOST_EATEN THEN speed_eaten
    ELSE speed_normal

_at_center(g) == Centered(g.pos)

IsReverse(d, cur) == d[1] = -cur[1] /\ d[2] = -cur[2]

\* Mutant of _valid_neighbors: the reverse is left out whatever the flag says.
_valid_neighbors_never_reverse(m, g, avoid_reverse) ==
    SelectSeq(ALL_DIRS,
        LAMBDA d : /\ ~IsReverse(d, g.dir)
                   /\ in_bounds(m, Step(RoundTile(g.pos), d))
                   /\ passable(m, Step(RoundTile(g.pos), d)))

\* Ghost._valid_neighbors: the directions in the order of ALL_DIRS.
_valid_neighbors(m, g, avoid_reverse) ==
    SelectSeq(ALL_DIRS,
        LAMBDA d : /\ ~(avoid_reverse /\ IsReverse(d, g.dir))
                   /\ in_bounds(m, Step(RoundTile(g.pos), d))
                   /\ passable(m, Step(RoundTile(g.pos), d)))

_target_tile(m, g, player_tile) ==
    IF g.state = GHOST_EATEN THEN m.house_pos
    ELSE IF g.state = GHOST_VULNERABLE
    THEN << IF player_tile[1] > m.width \div 2 THEN 0 ELSE m.width - 1,
            IF player_tile[2] > m.height \div 2 THEN 0 ELSE m.height - 1 >>
    ELSE player_tile

\* Mutant of GreedyDir: "dist <= best_dist", the last choice of least distance.
GreedyDirLast(g, choices, target) ==
    LET dist(i) == manhattan(Step(RoundTile(g.pos), choices[i]), target)
        best == CHOOSE i \in 1..Len(choices) :
                    /\ \A j \in 1..Len(choices) : dist(i) <= dist(j)
                    /\ \A j \in (i + 1)..Len(choices) : dist(j) > dist(i)
    IN  choices[best]

\* Ghost._choose_dir: the first choice of least Manhattan distance.
GreedyDir(g, choices, target) ==
    LET dist(i) == manhattan(Step(RoundTile(g.pos), choices[i]), target)
        best == CHOOSE i \in 1..Len(choices) :
                    /\ \A j \in 1..Len(choices) : dist(i) <= dist(j)
                    /\ \A j \in 1..(i - 1) : dist(j) > dist(i)
    IN  choices[best]

\* The directions _choose_dir can return, by the ghost's class.
_choose_dir(g, choices, target) ==
    IF Len(choices) = 0 THEN {g.dir}
    ELSE IF g.kind = "random" THEN {choices[i] : i \in 1..Len(choices)}
    ELSE {GreedyDir(g, choices, target)}

\* Mutant of GhostDecide: the direction is chosen anew in every frame.
GhostDecideAnywhere(m, g, player_tile) ==
    LET c1 == _valid_neighbors(m, g, TRUE)
        choices == IF Len(c1) = 0 THEN _valid_neighbors(m, g, FALSE) ELSE c1
    IN  _choose_dir(g, choices, _target_tile(m, g, player_tile))

\* The decision that opens Ghost.update.
GhostDecide(m, g, player_tile) ==
    IF ~_at_center(g) THEN {g.dir}
    ELSE LET c1 == _valid_neighbors(m, g, TRUE)
             choices == IF Len(c1) = 0 THEN _valid_neighbors(m, g, FALSE) ELSE c1
         IN  _choose_dir(g, choices, _target_tile(m, g, player_tile))

GhostMove(g, d) ==
    LET speed == _current_speed(g)
    IN  [g EXCEPT !.dir = d,
                  !.pos = <<g.pos[1] + d[1] * speed, g.pos[2] + d[2] * speed>>,
                  !.inexact = <<g.inexact[1] \/ d[1] # 0, g.inexact[2] \/ d[2] # 0>>]

AtHouse(m, g) ==
    g.state = GHOST_EATEN /\ _at_center(g) /\ RoundTile(g.pos) = m.house_pos

\* The end of Ghost.update: an eaten ghost centered on the house tile
\* becomes normal and draws a direction from _valid_neighbors(False).
GhostArrive(m, g) ==
    IF ~AtHouse(m, g) THEN {g}
    ELSE LET n == [g EXCEPT !.state = GHOST_NORMAL]
             choices == _valid_neighbors(m, n, FALSE)
         IN  IF Len(choices) = 0 THEN {n}
             ELSE {[n EXCEPT !.dir = choices[i]] : i \in 1..Len(choices)}

\* Ghost.update of ghost i: every outcome, with what it adds to the log.
GhostUpdate(m, g, i, player_tile) ==
    UNION {
        LET moved == GhostMove(g, d)
        IN  {[ ghost |-> a,
               decided |-> IF _at_center(g)
                           THEN {[ghost |-> i, pos |-> g.pos, heading |-> g.dir,
                                  state |-> g.state, dir |-> d]}
                           ELSE {},
               gturn |-> (IF d # g.dir THEN {<<i, g.pos>>} ELSE {})
                         \cup (IF a.dir # d THEN {<<i, moved.pos>>} ELSE {}),
               house |-> IF AtHouse(m, moved)
                         THEN {[ghost |-> i, heading |-> d, adopted |-> a.dir]}
                         ELSE {} ] :
             a \in GhostArrive(m, moved)} :
        d \in GhostDecide(m, g, player_tile)}

\* ------------------------------------------------------------ game
VARIABLES maze, player, ghosts, power_timer, running, win, frames, log

vars == <<maze, player, ghosts, power_timer, running, win, frames, log>>

\* The number of frames a checked run lasts at most.
MaxFrames == 24

\* What the last frame did (not program state): the counts eat_pellets
\* returned and the tile it looked at, the ghosts set_eaten was called on,
\* the number of lives lost and of resets in _check_collisions, the
\* re-choices made on the house tile, the position each entity had
\* whenever its direction changed, power_timer as the power window step
\* left it (window) and, if it opened the window, the ghosts' states as it
\* left them (opened), the decisions of the ghosts that were centered
\* (position, heading and state before, direction chosen), and what the
\* countdown did (CountLog), what the collision check met as it started
\* (Checked) and the ghosts that cost a life in it (threats).  age is kept
\* from frame to frame: the number of countdowns since the power window was
\* opened, 0 when none is open.
NoLog ==
    [ eaten |-> 0, power |-> 0, tile |-> <<0, 0>>, captured |-> {}, lost |-> 0,
      resets |-> 0, house |-> {}, pturn |-> {}, gturn |-> {}, window |-> 0,
      opened |-> <<>>, decisions |-> {}, counted |-> 0, age |-> 0, lasted |-> 0,
      expiring |-> <<>>, expired |-> <<>>, checked |-> <<>>, threats |-> {} ]

Ghosts == 1..Len(ghosts)

\* Game.__init__: the first spawn is a ChaserGhost, every other one a
\* RandomGhost; dirs[i] is the direction random.choice gave ghost i.
NewGhosts(m, dirs) ==
    [i \in 1..Len(m.ghost_starts) |->
        NewGhost(m.ghost_starts[i], IF i = 1 THEN "chaser" ELSE "random", dirs[i])]

\* Game._build_maze pads the rows to one width with spaces (open floor).
LJust(row, w) == [x \in 1..w |-> IF x <= Len(row) THEN row[x] ELSE " "]

MaxLen(layout) ==
    CHOOSE w \in {Len(layout[y]) : y \in 1..Len(layout)} :
        \A y \in 1..Len(layout) : Len(layout[y]) <= w

BuildMaze(layout) == Maze([y \in 1..Len(layout) |-> LJust(layout[y], MaxLen(layout))])

InitGame(layout) ==
    /\ maze = BuildMaze(layout)
    /\ player = NewPlayer(maze)
    /\ \E dirs \in [1..Len(maze.ghost_starts) -> DirSet] : ghosts = NewGhosts(maze, dirs)
    /\ power_timer = 0
    /\ running = TRUE
    /\ win = FALSE
    /\ frames = 0
    /\ log = NoLog

\* --- Game._check_collisions
\* math.hypot(dx, dy) < TILE_SIZE * 0.6 on integer pixel differences.
Near(pp, gp) ==
    25 * ((pp[1] - gp[1]) * (pp[1] - gp[1]) + (pp[2] - gp[2]) * (pp[2] - gp[2]))
        < 9 * TILE_SIZE * TILE_SIZE

PlayerPx(p) == <<CHOOSE v \in PxSet(p.pos[1], FALSE) : TRUE,
                 CHOOSE v \in PxSet(p.pos[2], FALSE) : TRUE>>

\* The outcomes of the distance test for ghost g.
HitSet(pp, g) ==
    {Near(pp, <<gx, gy>>) : gx \in PxSet(g.pos[1], g.inexact[1]),
                            gy \in PxSet(g.pos[2], g.inexact[2])}

\* Every ghost reset, for each draw of directions.
ResetAll(gs) ==
    {[i \in 1..Len(gs) |-> reset(gs[i], dirs[i])] : dirs \in [1..Len(gs) -> DirSet]}

\* The direction changes a reset makes, at the position it assigned first.
ResetTurns(old, new) ==
    {<<i, new[i].pos>> : i \in {j \in 1..Len(old) : new[j].dir # old[j].dir}}

\* One pass of the loop body for ghost i which the distance test found
\* near (s: the game's fields and the log so far).
Collide(s, i) ==
    LET g == s.ghosts[i]
    IN  IF g.state = GHOST_VULNERABLE
        THEN {[s EXCEPT !.ghosts[i] = set_eaten(g),
                        !.player.score = @ + EAT_SCORE,
                        !.log.captured = @ \cup {i}]}
        ELSE IF g.state = GHOST_EATEN THEN {s}
        ELSE LET lives == s.player.lives - 1
             IN  IF lives <= 0
                 THEN {[s EXCEPT !.player.lives = lives, !.running = FALSE,
                                 !.log.lost = @ + 1,
                                 !.log.threats = @ \cup {i}]}
                 ELSE {[s EXCEPT !.player.lives = lives,
                                 !.player.pos = TileCenter(s.maze.player_start),
                                 !.ghosts = gs,
                                 !.power_timer = 0,
                                 !.log.age = 0,
                                 !.log.lost = @ + 1,
                                 !.log.threats = @ \cup {i},
                                 !.log.resets = @ + 1,
                                 !.log.gturn = @ \cup ResetTurns(s.ghosts, gs)] :
                      gs \in ResetAll(s.ghosts)}

RECURSIVE CheckFrom(_, _, _)
CheckFrom(s, i, pp) ==
    IF i > Len(s.ghosts) THEN {s}
    ELSE UNION {IF hit THEN UNION {CheckFrom(t, i + 1, pp) : t \in Collide(s, i)}
                ELSE CheckFrom(s, i + 1, pp) : hit \in HitSet(pp, s.ghosts[i])}

\* What the loop meets as it starts: each ghost's state, and whether the
\* distance test on its position can come out true (may) and cannot come
\* out false (must).
Checked(s, pp) ==
    [i \in 1..Len(s.ghosts) |->
        [ state |-> s.ghosts[i].state,
          may |-> TRUE \in HitSet(pp, s.ghosts[i]),
          must |-> HitSet(pp, s.ghosts[i]) = {TRUE} ]]

_check_collisions(s) ==
    LET pp == PlayerPx(s.player)
    IN  CheckFrom([s EXCEPT !.log.checked = Checked(s, pp)], 1, pp)

\* --- Game._update
RECURSIVE UpdateGhostsFrom(_, _, _)
UpdateGhostsFrom(s, i, player_tile) ==
    IF i > Len(s.ghosts) THEN {s}
    ELSE UNION {UpdateGhostsFrom([s EXCEPT !.ghosts[i] = o.ghost,
                                           !.log.decisions = @ \cup o.decided,
                                           !.log.gturn = @ \cup o.gturn,
                                           !.log.house = @ \cup o.house],
                                 i + 1, player_tile) :
                o \in GhostUpdate(s.maze, s.ghosts[i], i, player_tile)}

\* Mutant of PlayerPhase: a power pellet adds the duration to the timer.
PlayerPhaseAdditive(s) ==
    LET p1 == PlayerUpdate(s.maze, s.player)
        e == eat_pellets(s.maze, p1)
        timer == IF e.power > 0 THEN s.power_timer + power_duration_sec * FPS
                 ELSE s.power_timer
        gs == IF e.power > 0
              THEN [i \in 1..Len(s.ghosts) |-> set_vulnerable(s.ghosts[i])]
              ELSE s.ghosts
    IN  [s EXCEPT !.maze = e.maze,
                  !.player = e.player,
                  !.power_timer = timer,
                  !.log.window = timer,
                  !.log.age = IF e.power > 0 THEN 0 ELSE @,
                  !.log.opened = IF e.power > 0
                                 THEN [i \in 1..Len(gs) |-> gs[i].state]
                                 ELSE <<>>,
                  !.ghosts = gs,
                  !.log.eaten = e.eaten,
                  !.log.power = e.power,
                  !.log.tile = RoundTile(p1.pos),
                  !.log.pturn = IF p1.dir # s.player.dir THEN {s.player.pos} ELSE {}]

\* player.update(), eat_pellets() and the start of the power window.
PlayerPhase(s) ==
    LET p1 == PlayerUpdate(s.maze, s.player)
        e == eat_pellets(s.maze, p1)
        timer == IF e.power > 0 THEN power_duration_sec * FPS ELSE s.power_timer
        gs == IF e.power > 0
              THEN [i \in 1..Len(s.ghosts) |-> set_vulnerable(s.ghosts[i])]
              ELSE s.ghosts
    IN  [s EXCEPT !.maze = e.maze,
                  !.player = e.player,
                  !.power_timer = timer,
                  !.log.window = timer,
                  !.log.age = IF e.power > 0 THEN 0 ELSE @,
                  !.log.opened = IF e.power > 0
                                 THEN [i \in 1..Len(gs) |-> gs[i].state]
                                 ELSE <<>>,
                  !.ghosts = gs,
                  !.log.eaten = e.eaten,
                  !.log.power = e.power,
                  !.log.tile = RoundTile(p1.pos),
                  !.log.pturn = IF p1.dir # s.player.dir THEN {s.player.pos} ELSE {}]

\* What the countdown adds to the log: the timer as it leaves it, the age
\* of the window and, when the timer runs out, the ghosts' states before
\* (expiring) and after (expired) and the age the window reached (lasted).
CountLog(s, gs) ==
    [s.log EXCEPT !.counted = s.power_timer - 1,
                  !.age = IF s.power_timer - 1 = 0 THEN 0 ELSE @ + 1,
                  !.lasted = IF s.power_timer - 1 = 0 THEN s.log.age + 1 ELSE 0,
                  !.expiring = IF s.power_timer - 1 = 0
                               THEN [i \in 1..Len(s.ghosts) |-> s.ghosts[i].state]
                               ELSE <<>>,
                  !.expired = IF s.power_timer - 1 = 0
                              THEN [i \in 1..Len(gs) |-> gs[i].state]
                              ELSE <<>>]

\* Mutant of Countdown: the vulnerable ghosts are left vulnerable.
CountdownKeepsStates(s) ==
    IF s.power_timer > 0
    THEN [s EXCEPT !.power_timer = @ - 1, !.log = CountLog(s, s.ghosts)]
    ELSE s

\* The power timer countdown.
Countdown(s) ==
    IF s.power_timer > 0
    THEN LET gs == IF s.power_timer - 1 = 0
                   THEN [i \in 1..Len(s.ghosts) |->
                           IF s.ghosts[i].state = GHOST_VULNERABLE
                           THEN [s.ghosts[i] EXCEPT !.state = GHOST_NORMAL]
                           ELSE s.ghosts[i]]
                   ELSE s.ghosts
         IN  [s EXCEPT !.power_timer = @ - 1, !.ghosts = gs, !.log = CountLog(s, gs)]
    ELSE s

\* Mutant of WinCheck: the power pellets are not looked at.
WinCheckPelletsOnly(s) ==
    IF s.maze.pellets = {} THEN [s EXCEPT !.win = TRUE, !.running = FALSE] ELSE s

WinCheck(s) ==
    IF s.maze.pellets = {} /\ s.maze.power_pellets = {}
    THEN [s EXCEPT !.win = TRUE, !.running = FALSE]
    ELSE s

_update(s) ==
    LET s1 == PlayerPhase(s)
    IN  {WinCheck(c) :
         c \in UNION {_check_collisions(Countdown(u)) :
                      u \in UpdateGhostsFrom(s1, 1, RoundTile(s1.player.pos))}}

\* --- Game.run: Tick is one pass of the loop body (draw() changes
\* nothing).  _handle_events: quit is a pygame.QUIT event in the queue, key the arrow
\* key held down (STOP: none).
Keys == DirSet \cup {STOP}

Tick(key, quit) ==
    /\ running
    /\ \E r \in _update([ maze |-> maze,
                          player |-> handle_input(player, key),
                          ghosts |-> ghosts,
                          power_timer |-> power_timer,
                          running |-> ~quit,
                          win |-> win,
                          log |-> [NoLog EXCEPT !.age = log.age] ]) :
        /\ maze' = r.maze
        /\ player' = r.player
        /\ ghosts' = r.ghosts
        /\ power_timer' = r.power_timer
        /\ running' = r.running
        /\ win' = r.win
        /\ log' = r.log

\* A pass counted against the length of the run.
Frame(key, quit) ==
    /\ frames < MaxFrames
    /\ frames' = frames + 1
    /\ Tick(key, quit)

Next == \E key \in Keys, quit \in BOOLEAN : Frame(key, quit)

\* A pass of a round that is left running for as long as it lasts: no QUIT
\* event, and the only key ever pressed is the right arrow.
HeldKeys == {RIGHT, STOP}

\* Such a run is not cut short, so its passes are counted modulo FrameWrap.
FrameWrap == 2

\* Game.run's loop: while running is true another pass begins.
Loop ==
    /\ running
    /\ frames' = (frames + 1) % FrameWrap

Hold(key) ==
    /\ Loop
    /\ Tick(key, FALSE)

NextLong == \E key \in HeldKeys : Hold(key)

\* ------------------------------------------------------------ specifications
\* Maze.__init__ takes any layout.  The runs are checked on three small
\* ones, each with an outer wall as in Game._build_maze:
\*   LayoutBlock     a 2x2 room, one ghost; no 'H', so the house tile is
\*                   the default (width // 2, height // 2), the ghost's spawn
\*   LayoutCorridor  a corridor with a house tile and two ghosts
\*   LayoutDuel      the player between two ghosts, one pellet
LayoutBlock ==
    << <<"#", "#", "#", "#">>,
       <<"#", "P", "o", "#">>,
       <<"#", ".", "C", "#">>,
       <<"#", "#", "#", "#">> >>

LayoutCorridor ==
    << <<"#", "#", "#", "#", "#", "#", "#", "#">>,
       <<"#", ".", "P", "o", "H", "C", "R", "#">>,
       <<"#", "#", "#", "#", "#", "#", "#", "#">> >>

LayoutDuel ==
    << <<"#", "#", "#", "#", "#", "#">>,
       <<"#", "C", "P", "R", ".", "#">>,
       <<"#", "#", "#", "#", "#", "#">> >>

Layouts == {LayoutBlock, LayoutCorridor, LayoutDuel}

Init == \E layout \in Layouts : InitGame(layout)

Spec == Init /\ [][Next]_vars

\* Runs on a maze with two power pellets: the player's room holds both and
\* a chaser, a random ghost lives in a room of its own, and the house tile
\* is walled in, so that a caught ghost stays eaten.
LayoutPower ==
    << <<"#", "#", "#", "#", "#", "#", "#", "#", "#", "#">>,
       <<"#", "o", "P", "o", ".", "C", "#", "R", ".", "#">>,
       <<"#", "#", "#", "#", "#", "#", "#", "#", "#", "#">>,
       <<"#", "#", "#", "H", "#", "#", "#", "#", "#", "#">>,
       <<"#", "#", "#", "#", "#", "#", "#", "#", "#", "#">> >>

InitPower == InitGame(LayoutPower)

SpecPower == InitPower /\ [][Next]_vars

\* Runs on a room of 3 x 2 tiles without inner walls: its two middle tiles
\* have three open neighbours each, so that a ghost has to choose.
LayoutRoom ==
    << <<"#", "#", "#", "#", "#">>,
       <<"#", "P", "o", ".", "#">>,
       <<"#", ".", ".", "C", "#">>,
       <<"#", "#", "#", "#", "#">> >>

InitRoom == InitGame(LayoutRoom)

SpecRoom == InitRoom /\ [][Next]_vars

\* Runs of any length on a corridor with the house tile in it: the player,
\* a power pellet, the house tile and a chaser in one room, a random ghost
\* and a pellet in a room of their own.  Game.run takes one pass after the
\* other while running is true.
LayoutLong ==
    << <<"#", "#", "#", "#", "#", "#", "#", "#", "#", "#", "#", "#">>,
       <<"#", "P", "o", "H", ".", ".", "C", "#", "#", "R", ".", "#">>,
       <<"#", "#", "#", "#", "#", "#", "#", "#", "#", "#", "#", "#">> >>

InitLong == InitGame(LayoutLong)

SpecLong == InitLong /\ [][NextLong]_vars /\ WF_frames(Loop)

\* Runs on a maze built from a layout without a 'P' cell: one row, a wall
\* at each end, a chaser and a pellet.
LayoutNoSpawn == << <<"#", "C", ".", "#">> >>

InitBuild == InitGame(LayoutNoSpawn)

SpecBuild == InitBuild /\ [][Next]_vars

\* ------------------------------------------------------------ claims
\* C1 (life-loss reset): at the end of a frame in which a ghost in normal
\* state collided with the player and the player has a life left, every
\* ghost is on its own spawn tile in normal state, the player is on the
\* maze's player start and power_timer is 0.
LifeLossReset ==
    (log.lost > 0 /\ player.lives >= 1) =>
        /\ \A i \in Ghosts :
              /\ ghosts[i].pos = TileCenter(maze.ghost_starts[i])
              /\ ghosts[i].state = GHOST_NORMAL
        /\ player.pos = TileCenter(maze.player_start)
        /\ power_timer = 0

\* A life lost with lives left, in a frame whose collision check had caught
\* a vulnerable ghost first (so a ghost was eaten and the power timer ran).
LifeLossResetWitness ==
    /\ log.lost > 0
    /\ player.lives >= 1
    /\ log.captured # {}
    /\ Len(ghosts) = 2

\* The score a frame adds: 10 and 50 for what eat_pellets found, 200 for
\* each vulnerable ghost the collision check found near.
ScoreStep ==
    player'.score = player.score + PELLET_SCORE * log'.eaten + POWER_SCORE * log'.power
                    + EAT_SCORE * Cardinality(log'.captured)

\* C2 as stated (capture scoring): each vulnerable ghost found near adds
\* exactly 200 to the score, and ends the frame eaten, never normal.
CaptureScoringAsStated ==
    [][ /\ ScoreStep
        /\ \A i \in log'.captured : ghosts'[i].state = GHOST_EATEN ]_vars

\* C2 as amended: each vulnerable ghost found near adds exactly 200 to the
\* score and ends the frame eaten, unless a ghost checked after it in the
\* same frame costs a life with lives left: the reset then leaves it normal.
CaptureScoring ==
    [][ /\ ScoreStep
        /\ \A i \in log'.captured :
              ghosts'[i].state = IF log'.resets = 0 THEN GHOST_EATEN ELSE GHOST_NORMAL ]_vars

\* A ghost caught well into the power window, in a frame without a reset.
CaptureScoringWitness ==
    /\ log.captured # {}
    /\ log.resets = 0
    /\ power_timer > 0
    /\ power_timer < power_duration_sec * FPS - 5

\* C3 (wall containment, ghosts): the tile a ghost's position rounds to is
\* never a wall.
GhostWallContainment ==
    \A i \in Ghosts : RoundTile(ghosts[i].pos) \notin maze.walls

\* C4 (wall containment, player): the tile the player's position rounds to
\* is in bounds and is never a wall.
PlayerWallContainment ==
    /\ in_bounds(maze, RoundTile(player.pos))
    /\ RoundTile(player.pos) \notin maze.walls

\* The player, away from its start, was stopped this frame at a tile center
\* because a wall blocks its direction, and the direction it asks for.
PlayerWallContainmentWitness ==
    /\ log.pturn # {}
    /\ player.dir = STOP
    /\ player.next_dir # STOP
    /\ ~can_move(maze, player.pos, player.next_dir)
    /\ player.pos # TileCenter(maze.player_start)

\* C5 (lives bound): lives stay in 0..3.
LivesBound == player.lives \in 0..START_LIVES

\* C6 (loss without win): a frame in which a collision with a normal ghost
\* brought lives to 0 ends with running false and win false.
LossWithoutWin ==
    (log.lost > 0 /\ player.lives <= 0) => (~running /\ ~win)

\* C7 (win condition): at the end of every frame win is true exactly when
\* no pellet and no power pellet is left, and then running is false; so the
\* frame that eats the only pellet of a maze without power pellets ends won.
WinCondition ==
    frames > 0 =>
        /\ win <=> (maze.pellets = {} /\ maze.power_pellets = {})
        /\ win => ~running

\* The frame that ate the only pellet of LayoutDuel ended won.
WinConditionWitness ==
    /\ win
    /\ log.eaten = 1
    /\ BuildMaze(LayoutDuel).walls = maze.walls
    /\ player.score = PELLET_SCORE

\* A direction d other than the reverse of heading leads from tile t to a
\* tile in bounds that is no wall.
NonReverseExists(t, heading) ==
    \E d \in DirSet :
        /\ ~IsReverse(d, heading)
        /\ in_bounds(maze, Step(t, d))
        /\ passable(maze, Step(t, d))

\* C8 (captured return): a ghost that is eaten, centered and on the house
\* tile after its move ends the frame normal, and the direction it draws
\* there is not the reverse of its heading when another legal one exists.
CapturedReturn ==
    \A h \in log.house :
        /\ ghosts[h.ghost].state = GHOST_NORMAL
        /\ NonReverseExists(maze.house_pos, h.heading) => ~IsReverse(h.adopted, h.heading)

\* C9 (turn quantization): over a frame the direction of the player or of a
\* ghost changes only through changes made at a position within 0.1 tile of
\* a tile center on both axes (turn, hard stop, decision, re-choice on the
\* house tile, reset).
TurnQuantization ==
    [][ /\ player'.dir # player.dir => log'.pturn # {}
        /\ \A i \in Ghosts : ghosts'[i].dir # ghosts[i].dir => \E t \in log'.gturn : t[1] = i
        /\ \A pos \in log'.pturn : Centered(pos)
        /\ \A t \in log'.gturn : Centered(t[2]) ]_vars

\* In one frame the player turned and a ghost changed direction at a
\* position off the exact tile center.
TurnQuantizationWitness ==
    /\ log.pturn # {}
    /\ \E t \in log.gturn : t[2] # TileCenter(RoundTile(t[2]))

\* C10 (pellet monotonicity): over a frame the number of pellets and power
\* pellets left shrinks by what eat_pellets counted (0 or 1 of each), taken
\* from the tile the player's position rounded to; nothing comes back.
PelletMonotonicity ==
    [][ /\ Cardinality(maze'.pellets) + Cardinality(maze'.power_pellets)
             = Cardinality(maze.pellets) + Cardinality(maze.power_pellets)
               - (log'.eaten + log'.power)
        /\ log'.eaten \in {0, 1} /\ log'.power \in {0, 1}
        /\ maze'.pellets \subseteq maze.pellets
        /\ maze'.power_pellets \subseteq maze.power_pellets
        /\ (maze.pellets \ maze'.pellets) \cup (maze.power_pellets \ maze'.power_pellets)
             \subseteq {log'.tile} ]_vars

\* A pellet eaten in a frame that also cost a life and reset the positions,
\* with another pellet still left.
PelletMonotonicityWitness ==
    /\ log.eaten + log.power > 0
    /\ log.resets > 0
    /\ maze.pellets \cup maze.power_pellets # {}

\* C11 (power window idempotence): in a frame where eat_pellets found a power
\* pellet, power_timer is the full duration, 7 * 60 frames, after the power
\* window step, whatever it was before.
PowerWindowIdempotence ==
    log.power > 0 => log.window = power_duration_sec * FPS

\* The second power pellet of LayoutPower was eaten while a ghost caught in
\* the window of the first one was still eaten (no reset since: the timer
\* was still running).
PowerWindowIdempotenceWitness ==
    /\ log.power > 0
    /\ maze.power_pellets = {}
    /\ \E i \in Ghosts : ghosts[i].state = GHOST_EATEN /\ i \notin log.captured

\* The directions that lead from tile t to a tile in bounds that is no wall.
OpenDirs(t) == {d \in DirSet : in_bounds(maze, Step(t, d)) /\ passable(maze, Step(t, d))}

Reverse(d) == <<-d[1], -d[2]>>

\* C12 (dead-end fallback): a ghost of either class that is centered on a
\* tile whose only open neighbour lies in the reverse of its heading decides
\* for the reverse, and moves that way by its speed in the same frame.
DeadEndFallback ==
    \A r \in log.decisions :
        OpenDirs(RoundTile(r.pos)) = {Reverse(r.heading)} =>
            /\ r.dir = Reverse(r.heading)
            /\ log.resets = 0 =>
                  /\ ghosts[r.ghost].dir = r.dir
                  /\ ghosts[r.ghost].pos =
                        << r.pos[1] + r.dir[1] * _current_speed([state |-> r.state]),
                           r.pos[2] + r.dir[2] * _current_speed([state |-> r.state]) >>

\* In one frame the chaser and the random ghost each decided in a dead end,
\* the random ghost away from its spawn.
DeadEndFallbackWitness ==
    /\ log.resets = 0
    /\ \E r \in log.decisions :
          /\ ghosts[r.ghost].kind = "chaser"
          /\ OpenDirs(RoundTile(r.pos)) = {Reverse(r.heading)}
    /\ \E r \in log.decisions :
          /\ ghosts[r.ghost].kind = "random"
          /\ OpenDirs(RoundTile(r.pos)) = {Reverse(r.heading)}
          /\ RoundTile(r.pos) # ghosts[r.ghost].start

\* C13 (invalid configuration fails fast): a maze is never built from a
\* layout without a player spawn cell; the player start of every maze that
\* exists is a 'P' cell of its layout.
ConfigFailsFast == maze.player_start \in CellsOf(maze.layout, {"P"})

\* C14 as stated (power window covers every ghost): at the end of every
\* frame with power_timer > 0 every ghost is vulnerable or eaten, also after
\* an eaten ghost has reached the house tile.
PowerWindowCoversAsStated ==
    power_timer > 0 => \A i \in Ghosts : ghosts[i].state # GHOST_NORMAL

\* C14 as amended: at the end of every frame with power_timer > 0 every
\* ghost is vulnerable or eaten, except a ghost that reached the house tile
\* as an eaten one after the last power pellet was eaten: it became normal
\* there and stays normal.  Step by step: a ghost that is normal at the end
\* of such a frame reached the house tile in this frame, or was normal at
\* the end of the frame before, with power_timer > 0 then and no power
\* pellet eaten since.
PowerWindowCovers ==
    [][ power_timer' > 0 =>
          \A i \in Ghosts :
              ghosts'[i].state = GHOST_NORMAL =>
                  \/ \E h \in log'.house : h.ghost = i
                  \/ /\ ghosts[i].state = GHOST_NORMAL
                     /\ power_timer > 0
                     /\ log'.power = 0 ]_vars

\* With the window open a ghost that came back to the house tile in an
\* earlier frame is still normal, next to a ghost that is not.
PowerWindowCoversWitness ==
    /\ power_timer > 0
    /\ log.house = {}
    /\ \E i, j \in Ghosts :
          ghosts[i].state = GHOST_NORMAL /\ ghosts[j].state # GHOST_NORMAL

\* C15 (opening the power window): in a frame where a power pellet is eaten
\* every ghost that was normal or vulnerable is vulnerable after the power
\* window step and every eaten ghost is still eaten; and no frame takes a
\* ghost from eaten to vulnerable (the way back leads through normal, at
\* the end of a frame).
PowerWindowOpens ==
    [][ /\ log'.power > 0 =>
              \A i \in Ghosts :
                  log'.opened[i] = IF ghosts[i].state = GHOST_EATEN
                                   THEN GHOST_EATEN ELSE GHOST_VULNERABLE
        /\ \A i \in Ghosts :
              ~(ghosts[i].state = GHOST_EATEN /\ ghosts'[i].state = GHOST_VULNERABLE) ]_vars

\* The second power pellet of LayoutPower was eaten with one ghost eaten
\* and the other one vulnerable from the first.
PowerWindowOpensWitness ==
    /\ log.power > 0
    /\ maze.power_pellets = {}
    /\ \E i, j \in Ghosts :
          /\ log.opened[i] = GHOST_EATEN /\ ghosts[i].state = GHOST_EATEN
          /\ log.opened[j] = GHOST_VULNERABLE /\ ghosts[j].state = GHOST_VULNERABLE

\* C16 (power window expiry): the countdown of a frame takes exactly 1 off
\* a positive power_timer; in the frame where it reaches 0 every ghost that
\* is still vulnerable becomes normal before the collision check (which
\* then catches none of them) and every eaten ghost stays eaten; and the
\* window then has lasted 7 * 60 countdowns, the one of the frame in which
\* the last power pellet was eaten included, no reset having ended it.
PowerWindowExpiry ==
    /\ log.window > 0 => log.counted = log.window - 1
    /\ log.window = 0 => log.counted = 0
    /\ power_timer > 0 => power_timer + log.age = power_duration_sec * FPS
    /\ (log.window > 0 /\ log.counted = 0) =>
          /\ log.lasted = power_duration_sec * FPS
          /\ \A i \in Ghosts :
                /\ log.expired[i] = IF log.expiring[i] = GHOST_VULNERABLE
                                    THEN GHOST_NORMAL ELSE log.expiring[i]
                /\ i \notin log.captured

\* The window ran out with one ghost vulnerable and one eaten: the first
\* ends the frame normal, the second eaten.
PowerWindowExpiryWitness ==
    /\ log.window = 1
    /\ log.lasted = power_duration_sec * FPS
    /\ \E i, j \in Ghosts :
          /\ log.expiring[i] = GHOST_VULNERABLE /\ ghosts[i].state = GHOST_NORMAL
          /\ log.expiring[j] = GHOST_EATEN /\ ghosts[j].state = GHOST_EATEN

\* The legal candidates of decision r: the open directions without the
\* reverse of the heading, or all open directions when none is left.
Candidates(r) ==
    LET open == OpenDirs(RoundTile(r.pos))
    IN  IF open \ {Reverse(r.heading)} # {} THEN open \ {Reverse(r.heading)} ELSE open

\* The place of a direction in the order up, down, left, right.
DirRank(d) == IF d = UP THEN 1 ELSE IF d = DOWN THEN 2 ELSE IF d = LEFT THEN 3 ELSE 4

\* The distance that counts for decision r: from the tile one step in
\* direction d to the target tile, the player's tile being log.tile.
DecisionDist(r, d) ==
    manhattan(Step(RoundTile(r.pos), d), _target_tile(maze, [state |-> r.state], log.tile))

\* C17 (pursuer decision): the direction a centered chaser decides for is a
\* legal candidate whose destination tile is as near to the target tile as
\* that of any other candidate and, among the candidates as near, the
\* first in the order up, down, left, right.
PursuerDecision ==
    \A r \in log.decisions :
        (ghosts[r.ghost].kind = "chaser" /\ Candidates(r) # {}) =>
            /\ r.dir \in Candidates(r)
            /\ \A c \in Candidates(r) :
                  /\ DecisionDist(r, r.dir) <= DecisionDist(r, c)
                  /\ DecisionDist(r, c) = DecisionDist(r, r.dir) => DirRank(r.dir) <= DirRank(c)

\* A chaser that was fleeing or going home decided between two candidates
\* as near to its target.
PursuerDecisionWitness ==
    \E r \in log.decisions :
        /\ ghosts[r.ghost].kind = "chaser"
        /\ r.state # GHOST_NORMAL
        /\ \E c \in Candidates(r) \ {r.dir} : DecisionDist(r, c) = DecisionDist(r, r.dir)

\* C18 (simultaneous collisions): in the collision check of a frame every
\* ghost gets the outcome its own state and position call for, as they were
\* when the check started, whatever a ghost checked before it set off: it is
\* caught exactly if it was vulnerable and near the player, and costs a life
\* exactly if it was normal and near the player.
SimultaneousCollisions ==
    \A i \in Ghosts :
        /\ i \in log.captured =>
              log.checked[i].state = GHOST_VULNERABLE /\ log.checked[i].may
        /\ (log.checked # <<>> /\ log.checked[i].state = GHOST_VULNERABLE
              /\ log.checked[i].must) => i \in log.captured
        /\ i \in log.threats =>
              log.checked[i].state = GHOST_NORMAL /\ log.checked[i].may
        /\ (log.checked # <<>> /\ log.checked[i].state = GHOST_NORMAL
              /\ log.checked[i].must) => i \in log.threats

\* C19 (captured ghosts return): in a round that keeps taking passes, on a
\* maze whose house tile the chaser can reach, the chaser (the first ghost),
\* once eaten, is normal again at some later time, unless the round stops
\* running.
CapturedReturns ==
    (Len(ghosts) >= 1 /\ ghosts[1].state = GHOST_EATEN)
        ~> (ghosts[1].state = GHOST_NORMAL \/ ~running)

\* C20 (no vulnerability outside the power window): at the end of every
\* frame, when power_timer is 0 no ghost is vulnerable.
NoVulnerableOutsideWindow ==
    power_timer = 0 => \A i \in Ghosts : ghosts[i].state # GHOST_VULNERABLE

\* A life lost with lives left during the power window, with a ghost that
\* was vulnerable when the collision check started: the reset ended the
\* window.
NoVulnerableOutsideWindowWitness ==
    /\ power_timer = 0
    /\ log.window > 1
    /\ log.resets > 0
    /\ \E i \in Ghosts : log.checked[i].state = GHOST_VULNERABLE

====
